---- MODULE Spec2Model ----
(***************************************************************************)
(* HMO Tenant Analysis Dashboard (src/scripts/app.py).                     *)
(*                                                                         *)
(* One Streamlit session: a CSV file is uploaded, the script loads and     *)
(* enriches it (score, category, age group), reads the sidebar filters,    *)
(* and renders the metrics and the five tabs.  A widget change reruns the  *)
(* script from the top.  Any exception inside the try block (line 167)     *)
(* is caught at line 555.                                                  *)
(*                                                                         *)
(* Numbers.  Scores are kept in HALF POINTS (Pts(25) = 50 half points is   *)
(* the code's 25), because the reference rule adds row[...] * 0.5.         *)
(* Names are sequences of character codes, so that the case-insensitive    *)
(* search and the string ordering of sort_values are computed.             *)
(***************************************************************************)
EXTENDS Integers, Sequences, FiniteSets, TLC

VARIABLES
    pc,                 \* position of the script run
    uploaded_file,      \* the file held by st.sidebar.file_uploader (NoFile: none)
    df,                 \* the loaded, enriched dataframe (rows in index order)
    score_cache,        \* st.cache_data of line 75: row scored |-> score returned
    shown,              \* what the run has put on the page so far, in order
    error_message,      \* str(e) shown by st.error at line 556
    exc,                \* the exception in flight ("" when none)
    min_score, payment_filter,          \* sidebar slider and selectbox
    picked_categories, picked_employment,   \* the user's multiselect picks:
                        \* <<>> while untouched (the default applies), else <<set>>
    categories, employment_options,     \* what the multiselects return to the run
    filtered_df,        \* lines 216-225
    top_n, top_tenants, \* tab 1
    search_term, sort_by, sort_order, sorted_results,           \* tab 3
    insights,           \* tab 4: the means written by st.write
    download, export    \* tab 5: the button clicked for this run, the rows exported

vars == <<pc, uploaded_file, df, score_cache, shown, error_message, exc,
          min_score, payment_filter, picked_categories, picked_employment,
          categories, employment_options,
          filtered_df, top_n, top_tenants,
          search_term, sort_by, sort_order, sorted_results,
          insights, download, export>>

-----------------------------------------------------------------------------
(* Bounds of the model *)

\* rows of an uploaded dataset in the filter/search/insight sessions
MaxRows == 3
\* copies of one tenant's row in an uploaded dataset of the leaderboard sessions
MaxCopies == 3

-----------------------------------------------------------------------------
(* Helpers *)

Pts(n) == 2 * n

Min(a, b) == IF a <= b THEN a ELSE b

Range(s) == {s[i] : i \in 1..Len(s)}

RECURSIVE SumSeq(_)
SumSeq(s) == IF s = <<>> THEN 0 ELSE Head(s) + SumSeq(Tail(s))

\* the rows of the frame at the positions `order` lists, in that order
Take(frame, order) == [k \in 1..Len(order) |-> frame[order[k]]]

\* a missing CSV cell, as pandas reads it
NaN == "NaN"

-----------------------------------------------------------------------------
(* Scoring: calculate_tenant_score, lines 75-131 *)

\* lines 81-82
RentPaidOnTimePoints(row) ==
    IF row.RentPaidOnTime = "Yes" THEN Pts(25) ELSE 0

\* a second `if` in place of the `elif` of line 85: both bands are granted
LatePaymentsPointsBothBands(row) ==
    (IF row.LatePayments = 0 THEN Pts(5) ELSE 0)
    + (IF row.LatePayments <= 2 THEN Pts(2) ELSE 0)

\* lines 83-86
LatePaymentsPoints(row) ==
    IF row.LatePayments = 0 THEN Pts(5)
    ELSE IF row.LatePayments <= 2 THEN Pts(2)
    ELSE 0

\* lines 89-90
DamagePoints(row) ==
    IF row.DamageToProperty = "No" THEN Pts(15) ELSE 0

\* lines 91-94
NoiseComplaintsPoints(row) ==
    IF row.NoiseComplaints = 0 THEN Pts(5)
    ELSE IF row.NoiseComplaints <= 1 THEN Pts(2)
    ELSE 0

\* line 97: the dict literal
cleanliness_scores ==
    ("Excellent" :> Pts(5)) @@ ("Good" :> Pts(3)) @@ ("Average" :> Pts(1))
    @@ ("Poor" :> 0)

\* line 98: dict.get(label, 0)
CleanlinessPoints(row) ==
    IF row.RoomCleanliness \in DOMAIN cleanliness_scores
    THEN cleanliness_scores[row.RoomCleanliness]
    ELSE 0

\* lines 101-104
TenancyPoints(row) ==
    IF row.TenancyDuration >= 12 THEN Pts(10)
    ELSE IF row.TenancyDuration >= 6 THEN Pts(5)
    ELSE 0

\* lines 106-109
EmploymentDurationPoints(row) ==
    IF row.EmploymentDuration >= 2 THEN Pts(5)
    ELSE IF row.EmploymentDuration >= 1 THEN Pts(3)
    ELSE 0

\* lines 111-112
EvictionPoints(row) ==
    IF row.EvictionNotice = "No" THEN Pts(5) ELSE 0

\* lines 115-120
CreditScorePoints(row) ==
    IF row.CreditScore >= 750 THEN Pts(8)
    ELSE IF row.CreditScore >= 650 THEN Pts(5)
    ELSE IF row.CreditScore >= 550 THEN Pts(2)
    ELSE 0

\* whole points only, int(reference * 0.5), in place of line 123
ReferencePointsWhole(row) ==
    Min(2 * (row.ReferenceScore \div 2), Pts(5))

\* line 123: min(reference * 0.5, 5); in half points reference * 0.5 is reference
ReferencePoints(row) ==
    Min(row.ReferenceScore, Pts(5))

\* lines 126-129
LifestylePoints(row) ==
    (IF row.SmokingStatus = "Non-smoker" THEN Pts(2) ELSE 0)
    + (IF row.PetOwner = "No" THEN Pts(2) ELSE 0)

\* lines 76-131: score = 0, the additions in order, return min(score, 100)
calculate_tenant_score(row) ==
    Min(RentPaidOnTimePoints(row) + LatePaymentsPoints(row)
        + DamagePoints(row) + NoiseComplaintsPoints(row)
        + CleanlinessPoints(row)
        + TenancyPoints(row) + EmploymentDurationPoints(row) + EvictionPoints(row)
        + CreditScorePoints(row)
        + ReferencePoints(row)
        + LifestylePoints(row),
        Pts(100))

\* `>` in place of the `>=` of lines 135-141
categorize_tenant_exclusive(score) ==
    IF score > Pts(80) THEN "Excellent (Premium)"
    ELSE IF score > Pts(70) THEN "Very Good"
    ELSE IF score > Pts(60) THEN "Good"
    ELSE IF score > Pts(50) THEN "Average"
    ELSE "Poor (High Risk)"

\* lines 133-144
categorize_tenant(score) ==
    IF score >= Pts(80) THEN "Excellent (Premium)"
    ELSE IF score >= Pts(70) THEN "Very Good"
    ELSE IF score >= Pts(60) THEN "Good"
    ELSE IF score >= Pts(50) THEN "Average"
    ELSE "Poor (High Risk)"

-----------------------------------------------------------------------------
(* Loading and enrichment, lines 168-177 *)

\* fillna with the wrong literal: a missing value would count as "no damage"
fillna_as_no(v) == IF v = NaN THEN "No" ELSE v

\* line 170: Series.fillna('Not Available')
fillna(v) == IF v = NaN THEN "Not Available" ELSE v

\* line 177: pd.cut(Age, bins=[0, 25, 35, 45, 100], labels=[...]), right-closed bins
AgeGroupLabels == <<"18-25", "26-35", "36-45", "45+">>

cut(age) ==
    IF age > 0 /\ age <= 25 THEN "18-25"
    ELSE IF age > 25 /\ age <= 35 THEN "26-35"
    ELSE IF age > 35 /\ age <= 45 THEN "36-45"
    ELSE IF age > 45 /\ age <= 100 THEN "45+"
    ELSE NaN

\* line 170 on one row
Normalize(row) == [row EXCEPT !.DamageToProperty = fillna(@)]

\* lines 170-177 on the whole frame; idx is the frame's index label
Enrich(rows) ==
    [i \in 1..Len(rows) |->
        LET r == Normalize(rows[i])
            s == calculate_tenant_score(r)
        IN  r @@ [idx |-> i - 1,
                  Tenant_Quality_Score |-> s,
                  Quality_Category |-> categorize_tenant(s),
                  Age_Group |-> cut(r.Age)]]

\* line 75, @st.cache_data: a row scored before gets the score stored for it,
\* any other row is scored by the function body
CachedScore(cache, r) ==
    IF r \in DOMAIN cache THEN cache[r] ELSE calculate_tenant_score(r)

\* line 75: the cache after the rows of a file were scored; the key is the
\* content of the row handed to the function (after the fillna of line 170)
Remember(cache, rows) ==
    [r \in DOMAIN cache \cup {Normalize(rows[i]) : i \in 1..Len(rows)} |->
        CachedScore(cache, r)]

\* lines 170-177 as the script runs them, scoring through the cache
EnrichCached(rows, cache) ==
    [i \in 1..Len(rows) |->
        LET r == Normalize(rows[i])
            s == CachedScore(cache, r)
        IN  r @@ [idx |-> i - 1,
                  Tenant_Quality_Score |-> s,
                  Quality_Category |-> categorize_tenant(s),
                  Age_Group |-> cut(r.Age)]]

-----------------------------------------------------------------------------
(* Uploaded files *)

NoFile == [rows |-> <<>>, fault |-> "no file"]

\* what can be wrong with a file, and the line of the try block that raises on it
Faults == {"unparseable file",              \* 168 pd.read_csv
           "Damage To Property",            \* 170 KeyError: column missing
           "Credit Score",                  \* 173 KeyError: column missing
           "Late Payments is text",         \* 173 TypeError: '<=' on str and int
           "Age",                           \* 177 KeyError: column missing
           "Employment Status",             \* 204 KeyError: column missing
           "Annual Income"}                 \* 363 px.scatter: column missing

LoadFaults == {"unparseable file", "Damage To Property", "Credit Score",
               "Late Payments is text", "Age"}

Ann == [Name |-> <<65, 110, 110>>, Age |-> 24, EmploymentStatus |-> "Full-time",
        AnnualIncome |-> 35000, RentPaidOnTime |-> "Yes", LatePayments |-> 0,
        DamageToProperty |-> "No", NoiseComplaints |-> 0,
        RoomCleanliness |-> "Excellent", TenancyDuration |-> 18,
        EmploymentDuration |-> 3, EvictionNotice |-> "No", CreditScore |-> 780,
        ReferenceScore |-> 10, SmokingStatus |-> "Non-smoker", PetOwner |-> "No"]

Bob == [Name |-> <<66, 111, 98>>, Age |-> 30, EmploymentStatus |-> "Unemployed",
        AnnualIncome |-> 15000, RentPaidOnTime |-> "No", LatePayments |-> 5,
        DamageToProperty |-> NaN, NoiseComplaints |-> 3,
        RoomCleanliness |-> "Poor", TenancyDuration |-> 2,
        EmploymentDuration |-> 0, EvictionNotice |-> "Yes", CreditScore |-> 500,
        ReferenceScore |-> 1, SmokingStatus |-> "Smoker", PetOwner |-> "Yes"]

anna == [Name |-> <<97, 110, 110, 97>>, Age |-> 50, EmploymentStatus |-> "Part-time",
         AnnualIncome |-> 28000, RentPaidOnTime |-> "Yes", LatePayments |-> 1,
         DamageToProperty |-> "Yes", NoiseComplaints |-> 1,
         RoomCleanliness |-> "Good", TenancyDuration |-> 6,
         EmploymentDuration |-> 1, EvictionNotice |-> "No", CreditScore |-> 650,
         ReferenceScore |-> 6, SmokingStatus |-> "Non-smoker", PetOwner |-> "Yes"]

\* every combination of the scoring fields over values on and around each band
ScoreRows ==
    [Name : {<<65, 110, 110>>}, Age : {24}, EmploymentStatus : {"Full-time"},
     AnnualIncome : {35000},
     RentPaidOnTime : {"Yes", "No"},
     LatePayments : {0, 2, 5},
     DamageToProperty : {"No", "Yes", NaN},
     NoiseComplaints : {0, 1, 3},
     RoomCleanliness : {"Excellent", "Good", "Average", "Poor", "Spotless"},
     TenancyDuration : {2, 6, 18},
     EmploymentDuration : {0, 1, 3},
     EvictionNotice : {"No", "Yes"},
     CreditScore : {500, 550, 650, 780},
     ReferenceScore : {-2, 1, 10, 12},
     SmokingStatus : {"Non-smoker", "Smoker"},
     PetOwner : {"No", "Yes"}]

SeqsUpTo(S, lo, hi) == UNION {[1..n -> S] : n \in lo..hi}

FaultyFiles == {[rows |-> <<r>>, fault |-> f] : r \in {Ann, Bob}, f \in Faults}

ScoreFiles ==
    {[rows |-> <<r>>, fault |-> "none"] : r \in ScoreRows} \cup FaultyFiles

-----------------------------------------------------------------------------------------------------------------------------------------------------
(* Filtering, lines 216-225 *)

\* `|` in place of the `&` of lines 217-218
MaskAnyOf(r, floor, cats, emps) ==
    \/ r.Tenant_Quality_Score >= Pts(floor)
    \/ r.Quality_Category \in cats
    \/ r.EmploymentStatus \in emps

\* the boolean mask of lines 217-219 on one row
Mask(r, floor, cats, emps) ==
    /\ r.Tenant_Quality_Score >= Pts(floor)
    /\ r.Quality_Category \in cats
    /\ r.EmploymentStatus \in emps

\* the payment mask built by index label but applied by position: position k
\* is kept when the row labelled k - 1 passes (right on a frame whose labels
\* are its positions, wrong on a frame that has lost rows)
PaymentFilterByPosition(frame, mode) ==
    IF mode = "All" THEN frame
    ELSE LET want == IF mode = "Pays On Time Only" THEN "Yes" ELSE "No"
             passes(k) == \E j \in 1..Len(frame) :
                             frame[j].idx = k - 1 /\ frame[j].RentPaidOnTime = want
         IN  Take(frame, SelectSeq([k \in 1..Len(frame) |-> k], passes))

\* lines 222-225
PaymentFilter(frame, mode) ==
    IF mode = "Pays On Time Only"
    THEN SelectSeq(frame, LAMBDA r : r.RentPaidOnTime = "Yes")
    ELSE IF mode = "Has Late Payments"
    THEN SelectSeq(frame, LAMBDA r : r.RentPaidOnTime = "No")
    ELSE frame

\* lines 216-225: boolean indexing keeps the rows in frame order
ApplyFilters(frame, floor, cats, emps, mode) ==
    PaymentFilter(SelectSeq(frame, LAMBDA r : Mask(r, floor, cats, emps)), mode)

\* lines 196-197: df['Quality_Category'].unique()
UniqueCategories(frame) == {frame[i].Quality_Category : i \in 1..Len(frame)}

\* lines 204-205: df['Employment Status'].unique()
UniqueEmployment(frame) == {frame[i].EmploymentStatus : i \in 1..Len(frame)}

-----------------------------------------------------------------------------
(* Ordering: DataFrame.sort_values and DataFrame.nlargest *)

\* str < str of Python: code point order, a proper prefix first
RECURSIVE StrLess(_, _)
StrLess(a, b) ==
    IF b = <<>> THEN FALSE
    ELSE IF a = <<>> THEN TRUE
    ELSE IF Head(a) # Head(b) THEN Head(a) < Head(b)
    ELSE StrLess(Tail(a), Tail(b))

\* the columns offered at line 389
SortColumns == {"Tenant_Quality_Score", "Annual Income", "Credit Score", "Age", "Name"}

\* key of row a strictly below key of row b in column `by`
KeyLess(a, b, by) ==
    CASE by = "Tenant_Quality_Score" -> a.Tenant_Quality_Score < b.Tenant_Quality_Score
      [] by = "Annual Income" -> a.AnnualIncome < b.AnnualIncome
      [] by = "Credit Score" -> a.CreditScore < b.CreditScore
      [] by = "Age" -> a.Age < b.Age
      [] by = "Name" -> StrLess(a.Name, b.Name)

\* a must come before b in the requested direction
Before(a, b, by, ascending) ==
    IF ascending THEN KeyLess(a, b, by) ELSE KeyLess(b, a, by)

\* every order of the positions I in which no row comes after a row it must
\* come before
RECURSIVE Arrangements(_, _, _, _)
Arrangements(frame, I, by, ascending) ==
    IF I = {} THEN {<<>>}
    ELSE UNION {
            {<<i>> \o rest : rest \in Arrangements(frame, I \ {i}, by, ascending)} :
            i \in {j \in I : \A k \in I : ~Before(frame[k], frame[j], by, ascending)}}

\* the one order in which equal keys keep their frame order
RECURSIVE StableArrangement(_, _, _, _)
StableArrangement(frame, I, by, ascending) ==
    IF I = {} THEN <<>>
    ELSE LET first == CHOOSE j \in I :
                        \A k \in I \ {j} :
                            \/ Before(frame[j], frame[k], by, ascending)
                            \/ (~Before(frame[k], frame[j], by, ascending) /\ j < k)
         IN  <<first>> \o StableArrangement(frame, I \ {first}, by, ascending)

\* a sort that ignores the direction asked for
sort_values_ascending_only(frame, by, ascending) ==
    {Take(frame, order) : order \in Arrangements(frame, 1..Len(frame), by, TRUE)}

\* lines 393-396 (and 550): sort_values(by, ascending=...) with the default
\* kind='quicksort', which pandas documents as not stable: the rows come out
\* ordered by the key, equal keys in an order the call does not fix.
\* The result is the set of frames the call may return.
sort_values(frame, by, ascending) ==
    {Take(frame, order) : order \in Arrangements(frame, 1..Len(frame), by, ascending)}

\* nlargest that drops the last row of the selection (head(n - 1))
nlargest_one_short(frame, n, by) ==
    {SubSeq(s, 1, Min(n, Len(frame)) - 1) : s \in sort_values(frame, by, FALSE)}

\* lines 276 and 508: nlargest(n, column), keep='first'.  With n >= len(frame)
\* pandas returns sort_values(ascending=False).head(n); otherwise it selects the
\* n largest with a mergesort, so equal scores keep their frame order and the
\* first occurrences win the last places.
nlargest(frame, n, by) ==
    IF n >= Len(frame)
    THEN sort_values(frame, by, FALSE)
    ELSE {SubSeq(Take(frame, StableArrangement(frame, 1..Len(frame), by, FALSE)), 1, n)}

-----------------------------------------------------------------------------
(* Name search, lines 379-384 *)

\* str.lower on one character code
Lower(c) == IF c >= 65 /\ c <= 90 THEN c + 32 ELSE c

\* Series.str.contains(term, case=False) for a term without regex characters
Contains(name, term) ==
    \E off \in 0..(Len(name) - Len(term)) :
        \A k \in 1..Len(term) : Lower(name[off + k]) = Lower(term[k])

\* lines 379-384: an empty search box keeps the filtered frame
Search(frame, term) ==
    IF term # <<>>
    THEN SelectSeq(frame, LAMBDA r : Contains(r.Name, term))
    ELSE frame

-----------------------------------------------------------------------------
(* Insights, lines 444-480.  A mean is the pair sum, n; n = 0 is NaN (0/0). *)

Scores(frame) == [i \in 1..Len(frame) |-> frame[i].Tenant_Quality_Score]

Mean(label, frame) == [group |-> label, sum |-> SumSeq(Scores(frame)), n |-> Len(frame)]

\* lines 445-451: both means are written only when both groups have rows
EmploymentInsight(frame) ==
    LET employed == SelectSeq(frame, LAMBDA r : r.EmploymentStatus # "Unemployed")
        unemployed == SelectSeq(frame, LAMBDA r : r.EmploymentStatus = "Unemployed")
    IN  IF Len(employed) > 0 /\ Len(unemployed) > 0
        THEN {Mean("Employed", employed), Mean("Unemployed", unemployed)}
        ELSE {}

\* the k-th smallest income of the frame
KthIncome(frame, k) ==
    LET i == CHOOSE i \in 1..Len(frame) :
                Cardinality({j \in 1..Len(frame) :
                    \/ frame[j].AnnualIncome < frame[i].AnnualIncome
                    \/ (frame[j].AnnualIncome = frame[i].AnnualIncome /\ j < i)}) = k - 1
    IN  frame[i].AnnualIncome

\* line 454: twice Series.median() (the mean of the two middle values when the
\* count is even); the median of an empty frame is NaN, every comparison with
\* it is False, and both income groups are then empty
Median2(frame) ==
    LET n == Len(frame) IN
    IF n % 2 = 1 THEN 2 * KthIncome(frame, (n + 1) \div 2)
    ELSE KthIncome(frame, n \div 2) + KthIncome(frame, n \div 2 + 1)

\* lines 454-461
IncomeInsight(frame) ==
    IF frame = <<>> THEN {}
    ELSE LET high == SelectSeq(frame, LAMBDA r : 2 * r.AnnualIncome >= Median2(frame))
             low == SelectSeq(frame, LAMBDA r : 2 * r.AnnualIncome < Median2(frame))
         IN  IF Len(high) > 0 /\ Len(low) > 0
             THEN {Mean("High income", high), Mean("Low income", low)}
             ELSE {}

\* lines 465-468: groupby('Age_Group') on the categorical column of pd.cut.
\* `observed` is the default of the installed pandas: False (pandas < 3) keeps
\* every label, an empty one with a NaN mean; True keeps the labels with rows.
AgeInsight(frame, observed) ==
    LET group(g) == SelectSeq(frame, LAMBDA r : r.Age_Group = g)
    IN  {Mean(g, group(g)) : g \in {h \in Range(AgeGroupLabels) :
                                        ~observed \/ Len(group(h)) > 0}}

\* lines 471-480: each tier is written when it has rows
CreditInsight(frame) ==
    LET excellent == SelectSeq(frame, LAMBDA r : r.CreditScore >= 750)
        good == SelectSeq(frame, LAMBDA r : r.CreditScore >= 650 /\ r.CreditScore < 750)
        poor == SelectSeq(frame, LAMBDA r : r.CreditScore < 650)
    IN  (IF Len(excellent) > 0 THEN {Mean("Excellent credit (750+)", excellent)} ELSE {})
        \cup (IF Len(good) > 0 THEN {Mean("Good credit (650-749)", good)} ELSE {})
        \cup (IF Len(poor) > 0 THEN {Mean("Poor credit (<650)", poor)} ELSE {})

-----------------------------------------------------------------------------
(* Uploaded datasets of the sessions *)

SessionFiles ==
    {[rows |-> rs, fault |-> "none"] : rs \in SeqsUpTo({Ann, Bob, anna}, 1, MaxRows)}
    \cup FaultyFiles

\* leaderboard datasets: one row fewer than, as many as, and one row more than
\* the smallest top_n (5), so that nlargest both cuts and does not; equal
\* scores come from the copies of a row
LeaderLengths == {4, 5, 6}

Copies(rs, r) == Cardinality({i \in 1..Len(rs) : rs[i] = r})

LeaderFiles ==
    {[rows |-> rs, fault |-> "none"] :
        rs \in {s \in UNION {[1..n -> {Ann, anna}] : n \in LeaderLengths} :
                    \A r \in {Ann, anna} : Copies(s, r) <= MaxCopies}}
    \cup FaultyFiles

\* values the user gives the widgets
MinScoreChoices == {0, 55, 56}          \* slider 0..100, line 185

PaymentChoices == {"All", "Pays On Time Only", "Has Late Payments"}    \* line 211

TopNChoices == {5, 10, 15, 20}          \* line 274

SearchTerms == {<<>>, <<65, 78>>, <<111>>}      \* "", "AN", "o"

DownloadButtons == {"top 20", "filtered", "complete"}   \* lines 507, 518, 528

\* no download button clicked: nothing is exported
NoExport == [file |-> "", rows |-> <<>>]

-----------------------------------------------------------------------------
(* The session *)

Init ==
    /\ pc = "idle"
    /\ uploaded_file = NoFile
    /\ df = <<>>
    /\ score_cache = <<>>
    /\ shown = <<>>
    /\ error_message = ""
    /\ exc = ""
    /\ min_score = 0
    /\ payment_filter = "All"
    /\ picked_categories = <<>>
    /\ picked_employment = <<>>
    /\ categories = {}
    /\ employment_options = {}
    /\ filtered_df = <<>>
    /\ top_n = 10
    /\ top_tenants = <<>>
    /\ search_term = <<>>
    /\ sort_by = "Tenant_Quality_Score"
    /\ sort_order = "Descending"
    /\ sorted_results = <<>>
    /\ insights = {}
    /\ download = "none"
    /\ export = NoExport

\* the state the browser keeps between runs
widgets == <<min_score, payment_filter, picked_categories, picked_employment,
             top_n, search_term, sort_by, sort_order, download>>

\* names the script binds during a run
locals == <<categories, employment_options, filtered_df, top_tenants,
            sorted_results, insights, export>>

\* lines 159-165: the user picks a file; the script runs with uploaded_file set
UploadFile(files) ==
    /\ pc = "idle"
    /\ \E f \in files : uploaded_file' = f
    /\ pc' = "load"
    /\ UNCHANGED <<df, score_cache, shown, error_message, exc, widgets, locals>>

\* lines 168-177: read_csv, fillna, scoring, categories, age groups
LoadData ==
    /\ pc = "load"
    /\ IF uploaded_file.fault \in LoadFaults
       THEN /\ exc' = uploaded_file.fault
            /\ pc' = "except"
            /\ UNCHANGED <<df, score_cache>>
       ELSE /\ df' = EnrichCached(uploaded_file.rows, score_cache)
            /\ score_cache' = Remember(score_cache, uploaded_file.rows)
            /\ pc' = "sidebar"
            /\ UNCHANGED exc
    /\ UNCHANGED <<uploaded_file, shown, error_message, widgets, locals>>

\* lines 216-225 with `df = df[...]` in place of `filtered_df = df[...]`: the
\* filter rebinds the loaded frame to the rows it kept
SidebarFilteringInPlace ==
    /\ pc = "sidebar"
    /\ uploaded_file.fault # "Employment Status"
    /\ LET cats == IF picked_categories = <<>>
                    THEN UniqueCategories(df)
                    ELSE picked_categories[1]
           emps == IF picked_employment = <<>>
                    THEN UniqueEmployment(df)
                    ELSE picked_employment[1]
           kept == ApplyFilters(df, min_score, cats, emps, payment_filter)
       IN  /\ categories' = cats
           /\ employment_options' = emps
           /\ df' = kept
           /\ filtered_df' = kept
    /\ shown' = shown \o <<"success", "filters">>
    /\ pc' = "metrics"
    /\ UNCHANGED <<uploaded_file, score_cache, error_message, exc, widgets,
                   top_tenants, sorted_results, insights, export>>

\* lines 179-225: the success banner, the four filter widgets, the filtering.
\* An untouched multiselect returns its default, the frame's unique values.
Sidebar ==
    /\ pc = "sidebar"
    /\ IF uploaded_file.fault = "Employment Status"
       THEN /\ shown' = Append(shown, "success")
            /\ exc' = uploaded_file.fault
            /\ pc' = "except"
            /\ UNCHANGED <<categories, employment_options, filtered_df>>
       ELSE LET cats == IF picked_categories = <<>>
                        THEN UniqueCategories(df)
                        ELSE picked_categories[1]
                emps == IF picked_employment = <<>>
                        THEN UniqueEmployment(df)
                        ELSE picked_employment[1]
            IN  /\ categories' = cats
                /\ employment_options' = emps
                /\ filtered_df' = ApplyFilters(df, min_score, cats, emps, payment_filter)
                /\ shown' = shown \o <<"success", "filters">>
                /\ pc' = "metrics"
                /\ UNCHANGED exc
    /\ UNCHANGED <<uploaded_file, df, score_cache, error_message, widgets,
                   top_tenants, sorted_results, insights, export>>

\* lines 228-259: the four metrics; the percentages are guarded by len > 0 and
\* the mean of an empty frame is NaN, so nothing raises
Metrics ==
    /\ pc = "metrics"
    /\ shown' = Append(shown, "metrics")
    /\ pc' = "tab1"
    /\ UNCHANGED <<uploaded_file, df, score_cache, error_message, exc, widgets, locals>>

\* lines 262-308: the tab bar, then the leaderboard cards of tab 1
TopTenants ==
    /\ pc = "tab1"
    /\ \E top \in nlargest(filtered_df, top_n, "Tenant_Quality_Score") :
          top_tenants' = top
    /\ shown' = shown \o <<"tabs", "top tenants">>
    /\ pc' = "tab2"
    /\ UNCHANGED <<uploaded_file, df, score_cache, error_message, exc, widgets, categories,
                   employment_options, filtered_df, sorted_results, insights, export>>

\* lines 310-371: three charts, then the income scatter; top_tenants is not
\* read after line 308
Analytics ==
    /\ pc = "tab2"
    /\ top_tenants' = <<>>
    /\ IF uploaded_file.fault = "Annual Income"
       THEN /\ shown' = Append(shown, "charts")
            /\ exc' = uploaded_file.fault
            /\ pc' = "except"
       ELSE /\ shown' = shown \o <<"charts", "income scatter">>
            /\ pc' = "tab3"
            /\ UNCHANGED exc
    /\ UNCHANGED <<uploaded_file, df, score_cache, error_message, widgets, categories,
                   employment_options, filtered_df, sorted_results, insights, export>>

\* lines 373-435: search by name, sort, one expander per row
TenantSearch ==
    /\ pc = "tab3"
    /\ \E sorted \in sort_values(Search(filtered_df, search_term), sort_by,
                                 sort_order = "Ascending") :
          sorted_results' = sorted
    /\ shown' = Append(shown, "search results")
    /\ pc' = "tab4"
    /\ UNCHANGED <<uploaded_file, df, score_cache, error_message, exc, widgets, categories,
                   employment_options, filtered_df, top_tenants, insights, export>>

\* lines 437-498: the group means; sorted_results is not read after line 435
Insights ==
    /\ pc = "tab4"
    /\ sorted_results' = <<>>
    /\ \E observed \in BOOLEAN :
          insights' = EmploymentInsight(filtered_df) \cup IncomeInsight(filtered_df)
                      \cup AgeInsight(filtered_df, observed)
                      \cup CreditInsight(filtered_df)
    /\ shown' = Append(shown, "insights")
    /\ pc' = "tab5"
    /\ UNCHANGED <<uploaded_file, df, score_cache, error_message, exc, widgets, categories,
                   employment_options, filtered_df, top_tenants, export>>

\* lines 500-553: the export of the button clicked for this run, the table.
\* A button is True only in the run its click started.
FullReport ==
    /\ pc = "tab5"
    /\ insights' = {}
    /\ CASE download = "top 20" ->
                \E top_20 \in nlargest(filtered_df, 20, "Tenant_Quality_Score") :
                    export' = [file |-> "top_20_tenants", rows |-> top_20]
         [] download = "filtered" ->
                export' = [file |-> "filtered_tenants", rows |-> filtered_df]
         [] download = "complete" ->
                export' = [file |-> "complete_tenant_analysis", rows |-> df]
         [] OTHER -> export' = NoExport
    /\ download' = "none"
    /\ shown' = Append(shown, "report")
    /\ pc' = "done"
    /\ UNCHANGED <<uploaded_file, df, score_cache, error_message, exc, min_score, payment_filter,
                   picked_categories, picked_employment, top_n, search_term,
                   sort_by, sort_order, categories, employment_options,
                   filtered_df, top_tenants, sorted_results>>

\* lines 555-557: st.error with str(e), then the hint
HandleException ==
    /\ pc = "except"
    /\ error_message' = exc
    /\ shown' = Append(shown, "error")
    /\ exc' = ""
    /\ pc' = "error"
    /\ UNCHANGED <<uploaded_file, df, score_cache, widgets, locals>>

\* a widget change reruns the script from line 1 with the page cleared
Rerun ==
    /\ pc = "done"
    /\ pc' = "load"
    /\ shown' = <<>>
    /\ categories' = {}
    /\ employment_options' = {}
    /\ filtered_df' = <<>>
    /\ top_tenants' = <<>>
    /\ sorted_results' = <<>>
    /\ insights' = {}
    /\ export' = NoExport
    /\ UNCHANGED <<uploaded_file, df, score_cache, error_message, exc>>

\* line 185
MoveMinScore ==
    /\ \E v \in MinScoreChoices \ {min_score} : min_score' = v
    /\ Rerun
    /\ UNCHANGED <<payment_filter, picked_categories, picked_employment,
                   top_n, search_term, sort_by, sort_order, download>>

\* line 194: any subset of the options, the frame's categories
PickCategories ==
    /\ \E c \in SUBSET UniqueCategories(df) :
          /\ c # categories
          /\ picked_categories' = <<c>>
    /\ Rerun
    /\ UNCHANGED <<min_score, payment_filter, picked_employment,
                   top_n, search_term, sort_by, sort_order, download>>

\* line 202
PickEmployment ==
    /\ \E e \in SUBSET UniqueEmployment(df) :
          /\ e # employment_options
          /\ picked_employment' = <<e>>
    /\ Rerun
    /\ UNCHANGED <<min_score, payment_filter, picked_categories,
                   top_n, search_term, sort_by, sort_order, download>>

\* line 209
PickPaymentFilter ==
    /\ \E p \in PaymentChoices \ {payment_filter} : payment_filter' = p
    /\ Rerun
    /\ UNCHANGED <<min_score, picked_categories, picked_employment,
                   top_n, search_term, sort_by, sort_order, download>>

\* line 274
PickTopN ==
    /\ \E n \in TopNChoices \ {top_n} : top_n' = n
    /\ Rerun
    /\ UNCHANGED <<min_score, payment_filter, picked_categories, picked_employment,
                   search_term, sort_by, sort_order, download>>

\* line 377
TypeSearchTerm ==
    /\ \E t \in SearchTerms \ {search_term} : search_term' = t
    /\ Rerun
    /\ UNCHANGED <<min_score, payment_filter, picked_categories, picked_employment,
                   top_n, sort_by, sort_order, download>>

\* line 387
PickSortBy ==
    /\ \E c \in SortColumns \ {sort_by} : sort_by' = c
    /\ Rerun
    /\ UNCHANGED <<min_score, payment_filter, picked_categories, picked_employment,
                   top_n, search_term, sort_order, download>>

\* line 391
PickSortOrder ==
    /\ sort_order' = IF sort_order = "Descending" THEN "Ascending" ELSE "Descending"
    /\ Rerun
    /\ UNCHANGED <<min_score, payment_filter, picked_categories, picked_employment,
                   top_n, search_term, sort_by, download>>

\* lines 507, 518, 528
ClickDownload ==
    /\ \E b \in DownloadButtons : download' = b
    /\ Rerun
    /\ UNCHANGED <<min_score, payment_filter, picked_categories, picked_employment,
                   top_n, search_term, sort_by, sort_order>>

RunStep ==
    \/ LoadData
    \/ Sidebar
    \/ Metrics
    \/ TopTenants
    \/ Analytics
    \/ TenantSearch
    \/ Insights
    \/ FullReport
    \/ HandleException

\* a session working the sidebar filters
Next ==
    \/ UploadFile(SessionFiles)
    \/ RunStep
    \/ MoveMinScore
    \/ PickCategories
    \/ PickEmployment
    \/ PickPaymentFilter

Spec == Init /\ [][Next]_vars

\* a session working the search tab
NextSearch ==
    \/ UploadFile(SessionFiles)
    \/ RunStep
    \/ TypeSearchTerm
    \/ PickSortBy
    \/ PickSortOrder

SpecSearch == Init /\ [][NextSearch]_vars

\* a session working the leaderboard and the exports
NextLeader ==
    \/ UploadFile(LeaderFiles)
    \/ RunStep
    \/ PickTopN
    \/ ClickDownload

SpecLeader == Init /\ [][NextLeader]_vars

\* single-row uploads over every combination of the scoring fields, run up to
\* the end of the enrichment
NextScore ==
    \/ UploadFile(ScoreFiles)
    \/ LoadData
    \/ HandleException

SpecScore == Init /\ [][NextScore]_vars

\* a session going back and forth between the score slider, the search box,
\* the sort direction and the download buttons; every run computes the
\* leaderboard and the insights as well
NextSession ==
    \/ UploadFile(SessionFiles)
    \/ RunStep
    \/ MoveMinScore
    \/ TypeSearchTerm
    \/ PickSortOrder
    \/ ClickDownload

SpecSession == Init /\ [][NextSession]_vars

-----
(* Properties of the scoring session (SpecScore) *)

Loaded == pc \notin {"idle", "load", "except", "error"}

FiveLabels == {"Excellent (Premium)", "Very Good", "Good", "Average",
               "Poor (High Risk)"}

\* C1: every scored record has a quality score s with 0 <= s <= 100, whatever
\* the values of its fields.
C1_ScoreWithinZeroAndHundred ==
    \A i \in 1..Len(df) :
        /\ df[i].Tenant_Quality_Score >= 0
        /\ df[i].Tenant_Quality_Score <= Pts(100)

\* The rule table of the scoring rules: each tiered rule is a set of bands
\* [lo, hi] (both ends included) with the points the band grants.
LatePaymentBands == {[lo |-> 0, hi |-> 0, pts |-> 5], [lo |-> 1, hi |-> 2, pts |-> 2]}

NoiseComplaintBands == {[lo |-> 0, hi |-> 0, pts |-> 5], [lo |-> 1, hi |-> 1, pts |-> 2]}

TenancyBands == {[lo |-> 12, hi |-> 1000000, pts |-> 10], [lo |-> 6, hi |-> 11, pts |-> 5]}

EmploymentBands == {[lo |-> 2, hi |-> 1000000, pts |-> 5], [lo |-> 1, hi |-> 1, pts |-> 3]}

CreditBands == {[lo |-> 750, hi |-> 1000000, pts |-> 8], [lo |-> 650, hi |-> 749, pts |-> 5],
                [lo |-> 550, hi |-> 649, pts |-> 2]}

BandsHit(v, bands) == {b \in bands : b.lo <= v /\ v <= b.hi}

BandPoints(v, bands) ==
    IF BandsHit(v, bands) = {} THEN 0
    ELSE Pts((CHOOSE b \in BandsHit(v, bands) : TRUE).pts)

CleanlinessTable(label) ==
    CASE label = "Excellent" -> Pts(5)
      [] label = "Good" -> Pts(3)
      [] label = "Average" -> Pts(1)
      [] OTHER -> 0

RuleTableSum(r) ==
    (IF r.RentPaidOnTime = "Yes" THEN Pts(25) ELSE 0)
    + BandPoints(r.LatePayments, LatePaymentBands)
    + (IF r.DamageToProperty = "No" THEN Pts(15) ELSE 0)
    + BandPoints(r.NoiseComplaints, NoiseComplaintBands)
    + CleanlinessTable(r.RoomCleanliness)
    + BandPoints(r.TenancyDuration, TenancyBands)
    + BandPoints(r.EmploymentDuration, EmploymentBands)
    + (IF r.EvictionNotice = "No" THEN Pts(5) ELSE 0)
    + BandPoints(r.CreditScore, CreditBands)
    + (IF r.ReferenceScore >= 10 THEN Pts(5) ELSE r.ReferenceScore)
    + (IF r.SmokingStatus = "Non-smoker" THEN Pts(2) ELSE 0)
    + (IF r.PetOwner = "No" THEN Pts(2) ELSE 0)

IsSpecExample(r) ==
    /\ r.RentPaidOnTime = "Yes" /\ r.LatePayments = 0 /\ r.DamageToProperty = "No"
    /\ r.NoiseComplaints = 0 /\ r.RoomCleanliness = "Excellent"
    /\ r.TenancyDuration = 18 /\ r.EmploymentDuration = 3
    /\ r.EvictionNotice = "No" /\ r.CreditScore = 780 /\ r.ReferenceScore = 10
    /\ r.SmokingStatus = "Non-smoker" /\ r.PetOwner = "No"

\* C2: the score of every record is the sum of the rule-table contributions,
\* at most one band of each tiered rule applies to it, an unrecognized
\* cleanliness label adds nothing, and the example record scores 92 and is
\* categorized "Excellent (Premium)".
C2_ScoreIsRuleTableSum ==
    \A i \in 1..Len(df) :
        LET r == df[i] IN
        /\ r.Tenant_Quality_Score = RuleTableSum(r)
        /\ Cardinality(BandsHit(r.LatePayments, LatePaymentBands)) <= 1
        /\ Cardinality(BandsHit(r.NoiseComplaints, NoiseComplaintBands)) <= 1
        /\ Cardinality(BandsHit(r.TenancyDuration, TenancyBands)) <= 1
        /\ Cardinality(BandsHit(r.EmploymentDuration, EmploymentBands)) <= 1
        /\ Cardinality(BandsHit(r.CreditScore, CreditBands)) <= 1
        /\ IsSpecExample(r) =>
              /\ r.Tenant_Quality_Score = Pts(92)
              /\ r.Quality_Category = "Excellent (Premium)"

\* the example record has been scored; so has a record with an unknown label
C2_Witness ==
    /\ Loaded
    /\ \E i \in 1..Len(df) : IsSpecExample(df[i]) /\ df[i].Tenant_Quality_Score = Pts(92)

C2_WitnessUnknownLabel ==
    /\ Loaded
    /\ \E i \in 1..Len(df) :
          /\ df[i].RoomCleanliness = "Spotless"
          /\ df[i].LatePayments = 2

\* C3: every scored record carries exactly one of the five labels, the one of
\* the band its score lies in: >= 80, [70, 80), [60, 70), [50, 60), < 50.
C3_CategoryBandsPartition ==
    \A i \in 1..Len(df) :
        LET s == df[i].Tenant_Quality_Score
            c == df[i].Quality_Category
        IN  /\ c \in FiveLabels
            /\ (c = "Excellent (Premium)") <=> (s >= Pts(80))
            /\ (c = "Very Good") <=> (s >= Pts(70) /\ s < Pts(80))
            /\ (c = "Good") <=> (s >= Pts(60) /\ s < Pts(70))
            /\ (c = "Average") <=> (s >= Pts(50) /\ s < Pts(60))
            /\ (c = "Poor (High Risk)") <=> (s < Pts(50))

\* records scoring exactly 80, 70, 60 and 50 exist and take the upper band
C3_Witness ==
    /\ Loaded
    /\ \E i \in 1..Len(df) :
          /\ df[i].Tenant_Quality_Score = Pts(70)
          /\ df[i].Quality_Category = "Very Good"

\* C9: a missing 'Damage To Property' becomes 'Not Available' before scoring,
\* the load raises nothing on it, and the damage rule gives it 0 points: a
\* record's score exceeds that of the same record with damage by 15 exactly
\* when its value is the literal 'No'.
C9_MissingDamageScoresZero ==
    (uploaded_file.fault = "none" /\ pc \notin {"idle", "load"}) =>
        /\ pc \notin {"except", "error"}
        /\ Len(df) = Len(uploaded_file.rows)
        /\ \A i \in 1..Len(df) :
              LET raw == uploaded_file.rows[i]
                  damaged == [raw EXCEPT !.DamageToProperty = "Yes"]
              IN  /\ raw.DamageToProperty = NaN =>
                        /\ df[i].DamageToProperty = "Not Available"
                        /\ df[i].Tenant_Quality_Score = calculate_tenant_score(damaged)
                  /\ df[i].Tenant_Quality_Score - calculate_tenant_score(damaged)
                        = IF raw.DamageToProperty = "No" THEN Pts(15) ELSE 0

C9_Witness ==
    /\ Loaded
    /\ \E i \in 1..Len(df) :
          /\ uploaded_file.rows[i].DamageToProperty = NaN
          /\ df[i].DamageToProperty = "Not Available"
          /\ df[i].RentPaidOnTime = "Yes"

\* The maxima the landing page (lines 568-573) and the comments of
\* calculate_tenant_score (lines 80, 88, 96, 100, 114, 122) state, by category
DocumentedMaxima ==
    [payment |-> Pts(30), property |-> Pts(25), stability |-> Pts(20),
     financial |-> Pts(15), cleanliness_references |-> Pts(10)]

\* what the scoring rules grant a record in each documented category
CategoryPoints(r) ==
    [payment |-> RentPaidOnTimePoints(r) + LatePaymentsPoints(r),
     property |-> DamagePoints(r) + NoiseComplaintsPoints(r),
     stability |-> TenancyPoints(r) + EmploymentDurationPoints(r)
                   + EvictionPoints(r),
     financial |-> CreditScorePoints(r),
     cleanliness_references |-> CleanlinessPoints(r) + ReferencePoints(r)]

\* every signal of the record is the best one its rule knows
IsAllBest(r) ==
    /\ r.RentPaidOnTime = "Yes" /\ r.LatePayments = 0 /\ r.DamageToProperty = "No"
    /\ r.NoiseComplaints = 0 /\ r.RoomCleanliness = "Excellent"
    /\ r.TenancyDuration >= 12 /\ r.EmploymentDuration >= 2
    /\ r.EvictionNotice = "No" /\ r.CreditScore >= 750 /\ r.ReferenceScore >= 10
    /\ r.SmokingStatus = "Non-smoker" /\ r.PetOwner = "No"

\* C12: the scale tops out at exactly 100 and 100 is attained: the record whose
\* every signal is the best one scores exactly 100, and its categories reach
\* the documented maxima 30, 25, 20, 15 and 10.
C12_BestRecordAttainsHundred ==
    \A i \in 1..Len(df) :
        /\ df[i].Tenant_Quality_Score <= Pts(100)
        /\ IsAllBest(df[i]) =>
              /\ df[i].Tenant_Quality_Score = Pts(100)
              /\ CategoryPoints(df[i]) = DocumentedMaxima

\* the highest score any scored record has: 92
C12_NoScoreAboveNinetyTwo ==
    \A i \in 1..Len(df) : df[i].Tenant_Quality_Score <= Pts(92)

\* the record of the claim: every signal the worst one, reference score 1
IsAllNegative(r) ==
    /\ r.RentPaidOnTime = "No" /\ r.LatePayments = 5 /\ r.DamageToProperty = "Yes"
    /\ r.NoiseComplaints = 3 /\ r.RoomCleanliness = "Poor"
    /\ r.TenancyDuration = 2 /\ r.EmploymentDuration = 0
    /\ r.EvictionNotice = "Yes" /\ r.CreditScore = 500 /\ r.ReferenceScore = 1
    /\ r.SmokingStatus = "Smoker" /\ r.PetOwner = "Yes"

\* C13 as claimed: the all-negative-signal record scores exactly 0 and is
\* categorized "Poor (High Risk)".
C13_AllNegativeScoresZero ==
    \A i \in 1..Len(df) :
        IsAllNegative(df[i]) =>
            /\ df[i].Tenant_Quality_Score = 0
            /\ df[i].Quality_Category = "Poor (High Risk)"

\* C13, amended: the all-negative-signal record scores exactly 0.5, the half
\* point its reference score of 1 earns, and is categorized "Poor (High Risk)".
C13_AllNegativeScoresHalfAPoint ==
    \A i \in 1..Len(df) :
        IsAllNegative(df[i]) =>
            /\ df[i].Tenant_Quality_Score = 1
            /\ df[i].Tenant_Quality_Score = ReferencePoints(df[i])
            /\ df[i].Quality_Category = "Poor (High Risk)"

C13_Witness ==
    /\ Loaded
    /\ \E i \in 1..Len(df) :
          IsAllNegative(df[i]) /\ IsAllNegative(uploaded_file.rows[i])

-----------------------------------------------------------------------------
(* Properties of the filter session (Spec) *)

\* the run has passed line 225: filtered_df is bound
Filtered == pc \in {"metrics", "tab1", "tab2", "tab3", "tab4", "tab5", "done"}

\* a row satisfies all four selections of the sidebar
Selected(r) ==
    /\ r.Tenant_Quality_Score >= Pts(min_score)
    /\ r.Quality_Category \in categories
    /\ r.EmploymentStatus \in employment_options
    /\ (payment_filter = "Pays On Time Only" => r.RentPaidOnTime = "Yes")
    /\ (payment_filter = "Has Late Payments" => r.RentPaidOnTime = "No")

\* the rows appear in the order of the frame they were loaded in
InInputOrder(frame) ==
    \A i, j \in 1..Len(frame) : i < j => frame[i].idx < frame[j].idx

\* C4: the filtered set holds exactly the records that satisfy all of the score
\* floor, the category set, the employment set and the payment mode, in their
\* original input order.
C4_FilterKeepsExactlyTheSelected ==
    Filtered =>
        /\ \A i \in 1..Len(df) : (df[i] \in Range(filtered_df)) <=> Selected(df[i])
        /\ Range(filtered_df) \subseteq Range(df)
        /\ InInputOrder(filtered_df)

\* several selections are active at once, rows are dropped and rows are kept
C4_Witness ==
    /\ pc = "done"
    /\ min_score = 55
    /\ payment_filter = "Pays On Time Only"
    /\ picked_employment # <<>>
    /\ Len(df) = 3
    /\ Len(filtered_df) = 2

\* C10: filtering the filtered set again with the same selection gives the same
\* records in the same order.
C10_FilterIsIdempotent ==
    Filtered =>
        ApplyFilters(filtered_df, min_score, categories, employment_options,
                     payment_filter) = filtered_df

\* a filter that dropped rows and kept rows has been re-applied
C10_Witness ==
    /\ pc = "done"
    /\ payment_filter = "Pays On Time Only"
    /\ Len(filtered_df) >= 2
    /\ Len(filtered_df) < Len(df)
    /\ filtered_df[1].idx > 0

\* the groups of the four partitions of the filtered set, by label
InsightGroups ==
    LET f == filtered_df IN
    [g \in {"Employed", "Unemployed", "High income", "Low income",
            "18-25", "26-35", "36-45", "45+",
            "Excellent credit (750+)", "Good credit (650-749)",
            "Poor credit (<650)"} |->
        CASE g = "Employed" -> SelectSeq(f, LAMBDA r : r.EmploymentStatus # "Unemployed")
          [] g = "Unemployed" -> SelectSeq(f, LAMBDA r : r.EmploymentStatus = "Unemployed")
          [] g = "High income" ->
                SelectSeq(f, LAMBDA r : 2 * r.AnnualIncome >= Median2(f))
          [] g = "Low income" ->
                SelectSeq(f, LAMBDA r : 2 * r.AnnualIncome < Median2(f))
          [] g = "Excellent credit (750+)" -> SelectSeq(f, LAMBDA r : r.CreditScore >= 750)
          [] g = "Good credit (650-749)" ->
                SelectSeq(f, LAMBDA r : r.CreditScore >= 650 /\ r.CreditScore <= 749)
          [] g = "Poor credit (<650)" -> SelectSeq(f, LAMBDA r : r.CreditScore < 650)
          [] OTHER -> SelectSeq(f, LAMBDA r : r.Age_Group = g)]

\* C7: a mean quality score is reported for exactly the non-empty groups of each
\* partition: no empty group is reported (as zero, NaN or otherwise) and every
\* non-empty group is, whatever the other groups hold.
C7_MeanForExactlyTheNonEmptyGroups ==
    pc = "tab5" =>
        \A g \in DOMAIN InsightGroups :
            /\ InsightGroups[g] # <<>> =>
                  [group |-> g, sum |-> SumSeq(Scores(InsightGroups[g])),
                   n |-> Len(InsightGroups[g])] \in insights
            /\ InsightGroups[g] = <<>> => \A m \in insights : m.group # g

ResultOutputs == {"success", "filters", "metrics", "tabs", "top tenants", "charts",
                  "income scatter", "search results", "insights", "report"}

\* C8: a run that fails ends in the error state with a message naming the
\* cause, and nothing of the run's results was shown before the error.
C8_ErrorShowsNoPartialResults ==
    pc = "error" =>
        /\ error_message = uploaded_file.fault
        /\ shown # <<>>
        /\ shown[Len(shown)] = "error"
        /\ \A k \in 1..Len(shown) : shown[k] \notin ResultOutputs

-----------------------------------------------------------------------------
(* Properties of the leaderboard session (SpecLeader) *)

SortedDescending(frame) ==
    \A i, j \in 1..Len(frame) :
        i < j => frame[i].Tenant_Quality_Score >= frame[j].Tenant_Quality_Score

EqualScoresInInputOrder(frame) ==
    \A i, j \in 1..Len(frame) :
        (i < j /\ frame[i].Tenant_Quality_Score = frame[j].Tenant_Quality_Score)
            => frame[i].idx < frame[j].idx

\* top is a selection of min(n, |frame|) distinct rows of the frame, by score
\* descending, that leaves out no row scoring above a row it holds
IsTopN(top, n, frame) ==
    /\ Range(top) \subseteq Range(frame)
    /\ Len(top) = Min(n, Len(frame))
    /\ Cardinality(Range(top)) = Len(top)
    /\ SortedDescending(top)
    /\ \A r \in Range(frame) \ Range(top) :
          \A t \in Range(top) : r.Tenant_Quality_Score <= t.Tenant_Quality_Score

\* C5 as claimed: the leaderboard and the top-20 export are top-N selections
\* of the filtered set with equal scores always in original input order.
C5_TopNTiesAlwaysInInputOrder ==
    /\ pc = "tab2" =>
          /\ IsTopN(top_tenants, top_n, filtered_df)
          /\ EqualScoresInInputOrder(top_tenants)
    /\ (pc = "done" /\ export.file = "top_20_tenants") =>
          /\ IsTopN(export.rows, 20, filtered_df)
          /\ EqualScoresInInputOrder(export.rows)

\* C5, amended: the leaderboard and the top-20 export are top-N selections of
\* the filtered set (subset, size min(N, |set|), score descending, no omitted
\* row above a returned one); equal scores are in original input order when N
\* is smaller than the filtered set.
C5_TopNOfFilteredSet ==
    /\ pc = "tab2" =>
          /\ IsTopN(top_tenants, top_n, filtered_df)
          /\ top_n < Len(filtered_df) => EqualScoresInInputOrder(top_tenants)
    /\ (pc = "done" /\ export.file = "top_20_tenants") =>
          /\ IsTopN(export.rows, 20, filtered_df)
          /\ 20 < Len(filtered_df) => EqualScoresInInputOrder(export.rows)

\* the leaderboard cut a longer filtered set between two rows of equal score
C5_Witness ==
    /\ pc = "tab2"
    /\ top_n = 5
    /\ Len(filtered_df) = 6
    /\ Len(top_tenants) = 5
    /\ \E r \in Range(filtered_df) \ Range(top_tenants) :
          r.Tenant_Quality_Score = top_tenants[5].Tenant_Quality_Score

\* the top-20 export of a shorter filtered set
C5_WitnessExport ==
    /\ pc = "done"
    /\ export.file = "top_20_tenants"
    /\ Len(export.rows) = 6

-----------------------------------------------------------------------------
(* Properties of the search session (SpecSearch) *)

IsPermutation(a, b) ==
    /\ Len(a) = Len(b)
    /\ Range(a) = Range(b)
    /\ Cardinality(Range(a)) = Len(a)

OrderedByKey(frame) ==
    \A i, j \in 1..Len(frame) :
        i < j => ~Before(frame[j], frame[i], sort_by, sort_order = "Ascending")

EqualKeysInInputOrder(frame) ==
    \A i, j \in 1..Len(frame) :
        (i < j /\ ~KeyLess(frame[i], frame[j], sort_by)
               /\ ~KeyLess(frame[j], frame[i], sort_by))
            => frame[i].idx < frame[j].idx

\* C6 as claimed: the sorted output is a permutation of the search results,
\* ordered by the key in the direction asked for, equal keys in their original
\* relative order.
C6_SortIsStable ==
    pc = "tab4" =>
        /\ IsPermutation(sorted_results, Search(filtered_df, search_term))
        /\ OrderedByKey(sorted_results)
        /\ EqualKeysInInputOrder(sorted_results)

\* C6, amended: the sorted output is a permutation of the search results,
\* ordered by the key in the direction asked for.
C6_SortOrdersByKey ==
    pc = "tab4" =>
        /\ IsPermutation(sorted_results, Search(filtered_df, search_term))
        /\ OrderedByKey(sorted_results)

\* a search that dropped a row, sorted ascending by name, moved rows
C6_Witness ==
    /\ pc = "tab4"
    /\ sort_by = "Name"
    /\ sort_order = "Ascending"
    /\ search_term # <<>>
    /\ Len(sorted_results) >= 2
    /\ Len(sorted_results) < Len(filtered_df)
    /\ sorted_results[1].idx > sorted_results[2].idx

-----------------------------------------------------------------------------
(* Properties of the mixed session (SpecSession) *)

\* lines 168-177 run afresh on the uploaded file, with no score remembered
FreshDf == Enrich(uploaded_file.rows)

\* lines 185-225 run afresh on FreshDf with the widgets as they are
FreshFiltered ==
    ApplyFilters(FreshDf, min_score,
                 IF picked_categories = <<>> THEN UniqueCategories(FreshDf)
                 ELSE picked_categories[1],
                 IF picked_employment = <<>> THEN UniqueEmployment(FreshDf)
                 ELSE picked_employment[1],
                 payment_filter)

\* the insights a fresh run can write for the filtered rows
FreshInsights ==
    {EmploymentInsight(FreshFiltered) \cup IncomeInsight(FreshFiltered)
     \cup AgeInsight(FreshFiltered, observed) \cup CreditInsight(FreshFiltered)
        : observed \in BOOLEAN}

\* the files a fresh run can offer for download
FreshExports ==
    {NoExport,
     [file |-> "filtered_tenants", rows |-> FreshFiltered],
     [file |-> "complete_tenant_analysis", rows |-> FreshDf]}
    \cup {[file |-> "top_20_tenants", rows |-> top_20] :
            top_20 \in nlargest(FreshFiltered, 20, "Tenant_Quality_Score")}

\* every view on the page is one a fresh run on the uploaded file with the
\* current widget values produces
ViewsAreFresh ==
    /\ Loaded => df = FreshDf
    /\ Filtered => filtered_df = FreshFiltered
    /\ pc = "tab2" =>
          top_tenants \in nlargest(FreshFiltered, top_n, "Tenant_Quality_Score")
    /\ pc = "tab4" =>
          sorted_results \in sort_values(Search(FreshFiltered, search_term),
                                         sort_by, sort_order = "Ascending")
    /\ pc = "tab5" => insights \in FreshInsights
    /\ pc = "done" => export \in FreshExports

\* no step changes a record of the loaded dataset
DatasetKept == (df # <<>>) => (df' = df)

\* C11: once the dataset is enriched no later operation (filter, search, sort,
\* top-N, aggregation, export, scoring through the cache) modifies any of its
\* records, and after any sequence of interactions every view equals the one a
\* fresh computation on the uploaded file with the current selection produces.
C11_DatasetKeptAndViewsFresh ==
    /\ []ViewsAreFresh
    /\ [][DatasetKept]_vars

\* a run scored from the cache, after the slider, the search box and the sort
\* direction were changed and the complete dataset was exported, with a row
\* filtered out
C11_Witness ==
    /\ pc = "done"
    /\ DOMAIN score_cache # {}
    /\ min_score # 0
    /\ search_term # <<>>
    /\ sort_order = "Ascending"
    /\ export = [file |-> "complete_tenant_analysis", rows |-> df]
    /\ Len(df) = 3
    /\ Len(filtered_df) < Len(df)

====
